---- MODULE Spec2Model ----
(***************************************************************************)
(* kitmap web dashboard: the keyboard heatmap (keyboard-heatmap.tsx), the  *)
(* App component that fetches the snapshot and hands it to the heatmap,    *)
(* and the status message of ShareableImage (shareable-image.tsx).         *)
(*                                                                         *)
(* Strings the code inspects character by character (key labels and the    *)
(* key names of the frequency map) are sequences of one-character strings, *)
(* so that toUpperCase / toLowerCase / charAt / slice are computed.        *)
(* Strings the code only passes on (Tailwind class names) are TLA+         *)
(* strings.                                                                *)
(*                                                                         *)
(* An intensity is the quotient count / maxCount of two integers.  It is   *)
(* kept as the exact fraction [num |-> count, den |-> maxCount]; the       *)
(* comparisons of getHeatColor against its two-decimal thresholds are      *)
(* cross-multiplied.  For counts below 2^45 the double the code computes   *)
(* compares with the double literal exactly as the fraction compares with  *)
(* the decimal: equal reals round to the same double, and distinct ones    *)
(* differ by at least 1/(100*maxCount), far more than one ulp.             *)
(***************************************************************************)
EXTENDS Integers, Sequences, FiniteSets, TLC

VARIABLES
  stats,      \* the props of KeyboardHeatmap: the snapshot being rendered
  row, col,   \* the position of the two nested map calls in KEYBOARD_LAYOUT
  cells,      \* the key elements returned so far, in order
  intensity,  \* the local `intensity` of the last callback, <<>> before the first
  scans,      \* Object.values(key_frequency_map) evaluations of this render
  appStats,   \* App: the state `stats`, Null or a snapshot
  loading,    \* App: the state `loading`
  error,      \* App: the state `error`, Null or [message |-> ...]
  mounted,    \* App: whether the mount effect has run
  inflight,   \* App: fetchStats calls waiting at their first await
  probes,     \* getHeatColor alone: the number of intensities tried so far
  heatColor,  \* getHeatColor alone: the class name returned last
  tally,      \* getHeatColor alone: per bucket, the intensities it was given
  status,     \* ShareableImage: the state `status`
  timers,     \* ShareableImage: the 3000 ms timeouts that have not fired
  running     \* ShareableImage: handler calls waiting at an await, per handler

heatmapVars == <<stats, row, col, cells, intensity, scans>>

appVars == <<appStats, loading, error, mounted, inflight>>

heatVars == <<probes, heatColor, tally>>

shareVars == <<status, timers, running>>

vars == <<heatmapVars, appVars, heatVars, shareVars>>

(* null *)
Null == [null |-> TRUE]

(* ---------------------------------------------------------------------- *)
(* String.prototype.toUpperCase / toLowerCase on ASCII                     *)
(* ---------------------------------------------------------------------- *)
LowerLetters ==
  <<"a","b","c","d","e","f","g","h","i","j","k","l","m",
    "n","o","p","q","r","s","t","u","v","w","x","y","z">>

UpperLetters ==
  <<"A","B","C","D","E","F","G","H","I","J","K","L","M",
    "N","O","P","Q","R","S","T","U","V","W","X","Y","Z">>

(* the case mappings of the letters, as tables *)
UpperOf ==
  [c \in {LowerLetters[i] : i \in DOMAIN LowerLetters} |->
     UpperLetters[CHOOSE i \in DOMAIN LowerLetters : LowerLetters[i] = c]]

LowerOf ==
  [c \in {UpperLetters[i] : i \in DOMAIN UpperLetters} |->
     LowerLetters[CHOOSE i \in DOMAIN UpperLetters : UpperLetters[i] = c]]

(* a character that is not a letter is left as it is *)
toUpperCaseChar(c) == IF c \in DOMAIN UpperOf THEN UpperOf[c] ELSE c

toLowerCaseChar(c) == IF c \in DOMAIN LowerOf THEN LowerOf[c] ELSE c

toUpperCase(s) == [i \in 1..Len(s) |-> toUpperCaseChar(s[i])]

toLowerCase(s) == [i \in 1..Len(s) |-> toLowerCaseChar(s[i])]

(* keyName.charAt(0): the first character, or the empty string *)
charAt0(s) == IF Len(s) = 0 THEN <<>> ELSE <<s[1]>>

(* keyName.slice(1) *)
slice1(s) == IF Len(s) = 0 THEN <<>> ELSE Tail(s)

(* ---------------------------------------------------------------------- *)
(* Labels of more than one character                                       *)
(* ---------------------------------------------------------------------- *)
Backspace == <<"B","a","c","k","s","p","a","c","e">>
Tab == <<"T","a","b">>
CapsLock == <<"C","a","p","s","L","o","c","k">>
Return == <<"R","e","t","u","r","n">>
Enter == <<"E","n","t","e","r">>
ShiftLeft == <<"S","h","i","f","t","L","e","f","t">>
ShiftRight == <<"S","h","i","f","t","R","i","g","h","t">>
ControlLeft == <<"C","o","n","t","r","o","l","L","e","f","t">>
ControlRight == <<"C","o","n","t","r","o","l","R","i","g","h","t">>
MetaLeft == <<"M","e","t","a","L","e","f","t">>
MetaRight == <<"M","e","t","a","R","i","g","h","t">>
Alt == <<"A","l","t">>
AltGr == <<"A","l","t","G","r">>
Space == <<"S","p","a","c","e">>

(* KEYBOARD_LAYOUT with an upper-case A in the home row next to l *)
KEYBOARD_LAYOUT_repeatsA ==
  << << <<"U+0060">>, <<"1">>, <<"2">>, <<"3">>, <<"4">>, <<"5">>, <<"6">>,
        <<"7">>, <<"8">>, <<"9">>, <<"0">>, <<"-">>, <<"=">>, Backspace >>,
     << Tab, <<"q">>, <<"w">>, <<"e">>, <<"r">>, <<"t">>, <<"y">>, <<"u">>,
        <<"i">>, <<"o">>, <<"p">>, <<"[">>, <<"]">>, <<"\\">> >>,
     << CapsLock, <<"a">>, <<"s">>, <<"d">>, <<"f">>, <<"g">>, <<"h">>,
        <<"j">>, <<"k">>, <<"l">>, <<"A">>, <<"'">>, Return >>,
     << ShiftLeft, <<"z">>, <<"x">>, <<"c">>, <<"v">>, <<"b">>, <<"n">>,
        <<"m">>, <<",">>, <<".">>, <<"/">>, ShiftRight >>,
     << ControlLeft, MetaLeft, Alt, Space, AltGr, MetaRight, ControlRight >> >>

KEYBOARD_LAYOUT ==
  << << <<"U+0060">>, <<"1">>, <<"2">>, <<"3">>, <<"4">>, <<"5">>, <<"6">>,
        <<"7">>, <<"8">>, <<"9">>, <<"0">>, <<"-">>, <<"=">>, Backspace >>,
     << Tab, <<"q">>, <<"w">>, <<"e">>, <<"r">>, <<"t">>, <<"y">>, <<"u">>,
        <<"i">>, <<"o">>, <<"p">>, <<"[">>, <<"]">>, <<"\\">> >>,
     << CapsLock, <<"a">>, <<"s">>, <<"d">>, <<"f">>, <<"g">>, <<"h">>,
        <<"j">>, <<"k">>, <<"l">>, <<";">>, <<"'">>, Return >>,
     << ShiftLeft, <<"z">>, <<"x">>, <<"c">>, <<"v">>, <<"b">>, <<"n">>,
        <<"m">>, <<",">>, <<".">>, <<"/">>, ShiftRight >>,
     << ControlLeft, MetaLeft, Alt, Space, AltGr, MetaRight, ControlRight >> >>

(* the glyphs are single characters, written by their code points (as is
   the backtick of KEYBOARD_LAYOUT, which a TLA+ string cannot hold) *)
KEY_DISPLAY_NAMES ==
  (Backspace :> <<"U+232B">>) @@
  (Tab :> Tab) @@
  (CapsLock :> <<"C","a","p","s">>) @@
  (Return :> <<"U+23CE">>) @@
  (Enter :> <<"U+23CE">>) @@
  (ShiftLeft :> <<"U+21E7">>) @@
  (ShiftRight :> <<"U+21E7">>) @@
  (ControlLeft :> <<"C","t","r","l">>) @@
  (ControlRight :> <<"C","t","r","l">>) @@
  (MetaLeft :> <<"U+2318">>) @@
  (MetaRight :> <<"U+2318">>) @@
  (Alt :> Alt) @@
  (AltGr :> Alt) @@
  (Space :> Space)

KEY_WIDTHS ==
  (Backspace :> "w-20") @@
  (Tab :> "w-16") @@
  (CapsLock :> "w-18") @@
  (Return :> "w-20") @@
  (ShiftLeft :> "w-24") @@
  (ShiftRight :> "w-28") @@
  (Space :> "w-64") @@
  (ControlLeft :> "w-16") @@
  (ControlRight :> "w-16") @@
  (MetaLeft :> "w-14") @@
  (MetaRight :> "w-14") @@
  (Alt :> "w-14") @@
  (AltGr :> "w-14")

(* ---------------------------------------------------------------------- *)
(* getHeatColor                                                            *)
(* ---------------------------------------------------------------------- *)
(* x < p/100, for an intensity x with a positive denominator *)
Below(x, p) == x.num * 100 < p * x.den

(* the colours in the order getHeatColor returns them, bucket 0 first *)
HEAT_COLORS ==
  << "bg-secondary/50", "bg-blue-950/80", "bg-blue-900/80", "bg-blue-800/80",
     "bg-blue-700/80", "bg-blue-600/80", "bg-cyan-700/80", "bg-cyan-500/80",
     "bg-green-400/80", "bg-yellow-400/80", "bg-yellow-500/90",
     "bg-orange-400/90", "bg-orange-500/90", "bg-red-400/90", "bg-red-500/90",
     "bg-red-700/95" >>

(* the bucket index of a colour *)
Bucket(color) == (CHOOSE b \in DOMAIN HEAT_COLORS : HEAT_COLORS[b] = color) - 1

(* getHeatColor without the intensity === 0 test *)
getHeatColor_noZeroTest(x) ==
  IF Below(x, 4) THEN "bg-blue-950/80"
  ELSE IF Below(x, 8) THEN "bg-blue-900/80"
  ELSE IF Below(x, 13) THEN "bg-blue-800/80"
  ELSE IF Below(x, 19) THEN "bg-blue-700/80"
  ELSE IF Below(x, 26) THEN "bg-blue-600/80"
  ELSE IF Below(x, 34) THEN "bg-cyan-700/80"
  ELSE IF Below(x, 42) THEN "bg-cyan-500/80"
  ELSE IF Below(x, 52) THEN "bg-green-400/80"
  ELSE IF Below(x, 62) THEN "bg-yellow-400/80"
  ELSE IF Below(x, 70) THEN "bg-yellow-500/90"
  ELSE IF Below(x, 77) THEN "bg-orange-400/90"
  ELSE IF Below(x, 84) THEN "bg-orange-500/90"
  ELSE IF Below(x, 90) THEN "bg-red-400/90"
  ELSE IF Below(x, 96) THEN "bg-red-500/90"
  ELSE "bg-red-700/95"

(* getHeatColor with intensity <= 0.52 for the eighth band *)
getHeatColor_inclusive52(x) ==
  IF x.num = 0 THEN "bg-secondary/50"
  ELSE IF Below(x, 4) THEN "bg-blue-950/80"
  ELSE IF Below(x, 8) THEN "bg-blue-900/80"
  ELSE IF Below(x, 13) THEN "bg-blue-800/80"
  ELSE IF Below(x, 19) THEN "bg-blue-700/80"
  ELSE IF Below(x, 26) THEN "bg-blue-600/80"
  ELSE IF Below(x, 34) THEN "bg-cyan-700/80"
  ELSE IF Below(x, 42) THEN "bg-cyan-500/80"
  ELSE IF x.num * 100 <= 52 * x.den THEN "bg-green-400/80"
  ELSE IF Below(x, 62) THEN "bg-yellow-400/80"
  ELSE IF Below(x, 70) THEN "bg-yellow-500/90"
  ELSE IF Below(x, 77) THEN "bg-orange-400/90"
  ELSE IF Below(x, 84) THEN "bg-orange-500/90"
  ELSE IF Below(x, 90) THEN "bg-red-400/90"
  ELSE IF Below(x, 96) THEN "bg-red-500/90"
  ELSE "bg-red-700/95"

(* getHeatColor with 0.92 in place of the threshold 0.9 *)
getHeatColor_hot92(x) ==
  IF x.num = 0 THEN "bg-secondary/50"
  ELSE IF Below(x, 4) THEN "bg-blue-950/80"
  ELSE IF Below(x, 8) THEN "bg-blue-900/80"
  ELSE IF Below(x, 13) THEN "bg-blue-800/80"
  ELSE IF Below(x, 19) THEN "bg-blue-700/80"
  ELSE IF Below(x, 26) THEN "bg-blue-600/80"
  ELSE IF Below(x, 34) THEN "bg-cyan-700/80"
  ELSE IF Below(x, 42) THEN "bg-cyan-500/80"
  ELSE IF Below(x, 52) THEN "bg-green-400/80"
  ELSE IF Below(x, 62) THEN "bg-yellow-400/80"
  ELSE IF Below(x, 70) THEN "bg-yellow-500/90"
  ELSE IF Below(x, 77) THEN "bg-orange-400/90"
  ELSE IF Below(x, 84) THEN "bg-orange-500/90"
  ELSE IF Below(x, 92) THEN "bg-red-400/90"
  ELSE IF Below(x, 96) THEN "bg-red-500/90"
  ELSE "bg-red-700/95"

getHeatColor(x) ==
  IF x.num = 0 THEN "bg-secondary/50"
  ELSE IF Below(x, 4) THEN "bg-blue-950/80"
  ELSE IF Below(x, 8) THEN "bg-blue-900/80"
  ELSE IF Below(x, 13) THEN "bg-blue-800/80"
  ELSE IF Below(x, 19) THEN "bg-blue-700/80"
  ELSE IF Below(x, 26) THEN "bg-blue-600/80"
  ELSE IF Below(x, 34) THEN "bg-cyan-700/80"
  ELSE IF Below(x, 42) THEN "bg-cyan-500/80"
  ELSE IF Below(x, 52) THEN "bg-green-400/80"
  ELSE IF Below(x, 62) THEN "bg-yellow-400/80"
  ELSE IF Below(x, 70) THEN "bg-yellow-500/90"
  ELSE IF Below(x, 77) THEN "bg-orange-400/90"
  ELSE IF Below(x, 84) THEN "bg-orange-500/90"
  ELSE IF Below(x, 90) THEN "bg-red-400/90"
  ELSE IF Below(x, 96) THEN "bg-red-500/90"
  ELSE "bg-red-700/95"

(* ---------------------------------------------------------------------- *)
(* getKeyCount                                                             *)
(* ---------------------------------------------------------------------- *)
(* freq[k] !== undefined *)
Defined(freq, k) == k \in DOMAIN freq

(* getKeyCount with the lower-cased form tried before the upper-cased one *)
getKeyCount_lowerFirst(s, keyName) ==
  LET freq == s.key_frequency_map
      upper == toUpperCase(keyName)
      lower == toLowerCase(keyName)
      capitalized == toUpperCase(charAt0(keyName)) \o toLowerCase(slice1(keyName))
      keyVariant == <<"K","e","y">> \o upper
  IN  IF Defined(freq, keyName) THEN freq[keyName]
      ELSE IF Defined(freq, lower) THEN freq[lower]
      ELSE IF Defined(freq, upper) THEN freq[upper]
      ELSE IF Defined(freq, capitalized) THEN freq[capitalized]
      ELSE IF Len(keyName) = 1 /\ Defined(freq, keyVariant) THEN freq[keyVariant]
      ELSE 0

(* getKeyCount with the exact match tried after the upper-cased form *)
getKeyCount_upperFirst(s, keyName) ==
  LET freq == s.key_frequency_map
      upper == toUpperCase(keyName)
      lower == toLowerCase(keyName)
      capitalized == toUpperCase(charAt0(keyName)) \o toLowerCase(slice1(keyName))
      keyVariant == <<"K","e","y">> \o upper
  IN  IF Defined(freq, upper) THEN freq[upper]
      ELSE IF Defined(freq, keyName) THEN freq[keyName]
      ELSE IF Defined(freq, lower) THEN freq[lower]
      ELSE IF Defined(freq, capitalized) THEN freq[capitalized]
      ELSE IF Len(keyName) = 1 /\ Defined(freq, keyVariant) THEN freq[keyVariant]
      ELSE 0

(* getKeyCount without the keyName.length === 1 test *)
getKeyCount_noLengthTest(s, keyName) ==
  LET freq == s.key_frequency_map
      upper == toUpperCase(keyName)
      lower == toLowerCase(keyName)
      capitalized == toUpperCase(charAt0(keyName)) \o toLowerCase(slice1(keyName))
      keyVariant == <<"K","e","y">> \o upper
  IN  IF Defined(freq, keyName) THEN freq[keyName]
      ELSE IF Defined(freq, upper) THEN freq[upper]
      ELSE IF Defined(freq, lower) THEN freq[lower]
      ELSE IF Defined(freq, capitalized) THEN freq[capitalized]
      ELSE IF Defined(freq, keyVariant) THEN freq[keyVariant]
      ELSE 0

(* getKeyCount without the Key-prefixed candidate *)
getKeyCount_noKeyVariant(s, keyName) ==
  LET freq == s.key_frequency_map
      upper == toUpperCase(keyName)
      lower == toLowerCase(keyName)
      capitalized == toUpperCase(charAt0(keyName)) \o toLowerCase(slice1(keyName))
  IN  IF Defined(freq, keyName) THEN freq[keyName]
      ELSE IF Defined(freq, upper) THEN freq[upper]
      ELSE IF Defined(freq, lower) THEN freq[lower]
      ELSE IF Defined(freq, capitalized) THEN freq[capitalized]
      ELSE 0

(* getKeyCount adding up the exact and the upper-cased entries *)
getKeyCount_sumsVariants(s, keyName) ==
  LET freq == s.key_frequency_map
      upper == toUpperCase(keyName)
      lower == toLowerCase(keyName)
      capitalized == toUpperCase(charAt0(keyName)) \o toLowerCase(slice1(keyName))
      keyVariant == <<"K","e","y">> \o upper
  IN  IF Defined(freq, keyName) /\ Defined(freq, upper) /\ upper # keyName
      THEN freq[keyName] + freq[upper]
      ELSE IF Defined(freq, keyName) THEN freq[keyName]
      ELSE IF Defined(freq, upper) THEN freq[upper]
      ELSE IF Defined(freq, lower) THEN freq[lower]
      ELSE IF Defined(freq, capitalized) THEN freq[capitalized]
      ELSE IF Len(keyName) = 1 /\ Defined(freq, keyVariant) THEN freq[keyVariant]
      ELSE 0

(* getKeyCount trying "Num" + upper-cased character after the Key variant *)
getKeyCount_triesNumPrefix(s, keyName) ==
  LET freq == s.key_frequency_map
      upper == toUpperCase(keyName)
      lower == toLowerCase(keyName)
      capitalized == toUpperCase(charAt0(keyName)) \o toLowerCase(slice1(keyName))
      keyVariant == <<"K","e","y">> \o upper
      numVariant == <<"N","u","m">> \o upper
  IN  IF Defined(freq, keyName) THEN freq[keyName]
      ELSE IF Defined(freq, upper) THEN freq[upper]
      ELSE IF Defined(freq, lower) THEN freq[lower]
      ELSE IF Defined(freq, capitalized) THEN freq[capitalized]
      ELSE IF Len(keyName) = 1 /\ Defined(freq, keyVariant) THEN freq[keyVariant]
      ELSE IF Len(keyName) = 1 /\ Defined(freq, numVariant) THEN freq[numVariant]
      ELSE 0

(* getKeyCount testing the entries for truthiness: a 0 counts as absent *)
getKeyCount_skipsZero(s, keyName) ==
  LET freq == s.key_frequency_map
      upper == toUpperCase(keyName)
      lower == toLowerCase(keyName)
      capitalized == toUpperCase(charAt0(keyName)) \o toLowerCase(slice1(keyName))
      keyVariant == <<"K","e","y">> \o upper
      Truthy(k) == Defined(freq, k) /\ freq[k] # 0
  IN  IF Truthy(keyName) THEN freq[keyName]
      ELSE IF Truthy(upper) THEN freq[upper]
      ELSE IF Truthy(lower) THEN freq[lower]
      ELSE IF Truthy(capitalized) THEN freq[capitalized]
      ELSE IF Len(keyName) = 1 /\ Truthy(keyVariant) THEN freq[keyVariant]
      ELSE 0

getKeyCount(s, keyName) ==
  LET freq == s.key_frequency_map
      upper == toUpperCase(keyName)
      lower == toLowerCase(keyName)
      capitalized == toUpperCase(charAt0(keyName)) \o toLowerCase(slice1(keyName))
      keyVariant == <<"K","e","y">> \o upper
  IN  IF Defined(freq, keyName) THEN freq[keyName]
      ELSE IF Defined(freq, upper) THEN freq[upper]
      ELSE IF Defined(freq, lower) THEN freq[lower]
      ELSE IF Defined(freq, capitalized) THEN freq[capitalized]
      ELSE IF Len(keyName) = 1 /\ Defined(freq, keyVariant) THEN freq[keyVariant]
      ELSE 0

(* ---------------------------------------------------------------------- *)
(* getIntensity                                                            *)
(* ---------------------------------------------------------------------- *)
(* Math.max(...xs) over a non-empty set of integers *)
MathMax(xs) == CHOOSE m \in xs : \A x \in xs : x <= m

(* Object.values(freq) *)
ObjectValues(freq) == {freq[k] : k \in DOMAIN freq}

(* getIntensity with the maximum floored at 0 instead of 1 *)
getIntensity_floorZero(s, keyName) ==
  LET count == getKeyCount(s, keyName)
      maxCount == MathMax(ObjectValues(s.key_frequency_map) \cup {0})
  IN  [num |-> count, den |-> maxCount]

(* getIntensity dividing by maxCount + 1 *)
getIntensity_plusOne(s, keyName) ==
  LET count == getKeyCount(s, keyName)
      maxCount == MathMax(ObjectValues(s.key_frequency_map) \cup {1})
  IN  [num |-> count, den |-> maxCount + 1]

getIntensity(s, keyName) ==
  LET count == getKeyCount(s, keyName)
      maxCount == MathMax(ObjectValues(s.key_frequency_map) \cup {1})
  IN  [num |-> count, den |-> maxCount]

(* ---------------------------------------------------------------------- *)
(* The snapshots a render can be handed                                    *)
(* ---------------------------------------------------------------------- *)
MaxEntries == 2

(* the JSON of /api/stats is not validated: a count can be negative *)
CountValues == {-1, 0, 1, 2}

FreqNames ==
  { <<"a">>, <<"A">>, <<"K","e","y","A">>,
    ShiftLeft, toUpperCase(ShiftLeft), toLowerCase(ShiftLeft),
    <<"S","h","i","f","t","l","e","f","t">>,
    <<"K","e","y">> \o toUpperCase(ShiftLeft),
    toUpperCase(Space), <<"N","u","m","1">> }

FreqMaps ==
  UNION { [D -> CountValues] :
            D \in {S \in SUBSET FreqNames : Cardinality(S) <= MaxEntries} }

Snapshots == { [key_frequency_map |-> f] : f \in FreqMaps }

(* ---------------------------------------------------------------------- *)
(* KeyboardHeatmap: one render walks the rows and, in each, the keys       *)
(* ---------------------------------------------------------------------- *)
(* App as constructed (useState initial values), before its mount effect *)
AppInit ==
  /\ appStats = Null
  /\ loading = TRUE
  /\ error = Null
  /\ mounted = FALSE
  /\ inflight = 0

(* no intensity has been given to getHeatColor *)
HeatInit ==
  /\ probes = 0
  /\ heatColor = ""
  /\ tally = [b \in 0..15 |-> [all |-> 0, mid |-> 0]]

(* useState({ type: null, message: '' }); the type null is written "null" *)
NoStatus == [type |-> "null", message |-> ""]

(* ShareableImage as constructed: no message, no timeout, no handler called *)
ShareInit ==
  /\ status = NoStatus
  /\ timers = 0
  /\ running = [download |-> 0, copy |-> 0]

Init ==
  /\ stats \in Snapshots
  /\ row = 1
  /\ col = 1
  /\ cells = <<>>
  /\ intensity = <<>>
  /\ scans = 0
  /\ AppInit
  /\ HeatInit
  /\ ShareInit

(* the callback of row.map, storing the resolved count back in the map *)
RenderKey_cachesCount ==
  /\ row <= Len(KEYBOARD_LAYOUT)
  /\ LET key == KEYBOARD_LAYOUT[row][col]
         i == getIntensity(stats, key)
         count == getKeyCount(stats, key)
         displayName == IF key \in DOMAIN KEY_DISPLAY_NAMES
                        THEN KEY_DISPLAY_NAMES[key] ELSE toUpperCase(key)
         width == IF key \in DOMAIN KEY_WIDTHS THEN KEY_WIDTHS[key] ELSE "w-12"
     IN  /\ intensity' = i
         /\ cells' = Append(cells, [key |-> key, displayName |-> displayName,
                                    width |-> width, count |-> count,
                                    color |-> getHeatColor(i)])
         /\ stats' = [stats EXCEPT !.key_frequency_map =
                        (key :> count) @@ stats.key_frequency_map]
  /\ scans' = scans + 1
  /\ IF col < Len(KEYBOARD_LAYOUT[row])
     THEN row' = row /\ col' = col + 1
     ELSE row' = row + 1 /\ col' = 1
  /\ UNCHANGED <<appVars, heatVars, shareVars>>

(* the callback of row.map, reading the snapshot App holds now instead of
   the one it was handed as props *)
RenderKey_readsAppState ==
  /\ row <= Len(KEYBOARD_LAYOUT)
  /\ LET current == IF appStats = Null THEN stats ELSE appStats
         key == KEYBOARD_LAYOUT[row][col]
         i == getIntensity(current, key)
         count == getKeyCount(current, key)
         displayName == IF key \in DOMAIN KEY_DISPLAY_NAMES
                        THEN KEY_DISPLAY_NAMES[key] ELSE toUpperCase(key)
         width == IF key \in DOMAIN KEY_WIDTHS THEN KEY_WIDTHS[key] ELSE "w-12"
     IN  /\ intensity' = i
         /\ cells' = Append(cells, [key |-> key, displayName |-> displayName,
                                    width |-> width, count |-> count,
                                    color |-> getHeatColor(i)])
  /\ scans' = scans + 1
  /\ IF col < Len(KEYBOARD_LAYOUT[row])
     THEN row' = row /\ col' = col + 1
     ELSE row' = row + 1 /\ col' = 1
  /\ UNCHANGED <<stats, appVars, heatVars, shareVars>>

(* the callback of row.map, falling back to the label as it is written *)
RenderKey_plainLabel ==
  /\ row <= Len(KEYBOARD_LAYOUT)
  /\ LET key == KEYBOARD_LAYOUT[row][col]
         i == getIntensity(stats, key)
         count == getKeyCount(stats, key)
         displayName == IF key \in DOMAIN KEY_DISPLAY_NAMES
                        THEN KEY_DISPLAY_NAMES[key] ELSE key
         width == IF key \in DOMAIN KEY_WIDTHS THEN KEY_WIDTHS[key] ELSE "w-12"
     IN  /\ intensity' = i
         /\ cells' = Append(cells, [key |-> key, displayName |-> displayName,
                                    width |-> width, count |-> count,
                                    color |-> getHeatColor(i)])
  /\ scans' = scans + 1
  /\ IF col < Len(KEYBOARD_LAYOUT[row])
     THEN row' = row /\ col' = col + 1
     ELSE row' = row + 1 /\ col' = 1
  /\ UNCHANGED <<stats, appVars, heatVars, shareVars>>

(* the callback of row.map, with the row left one key early *)
RenderKey_skipsRowEnd ==
  /\ row <= Len(KEYBOARD_LAYOUT)
  /\ LET key == KEYBOARD_LAYOUT[row][col]
         i == getIntensity(stats, key)
         count == getKeyCount(stats, key)
         displayName == IF key \in DOMAIN KEY_DISPLAY_NAMES
                        THEN KEY_DISPLAY_NAMES[key] ELSE toUpperCase(key)
         width == IF key \in DOMAIN KEY_WIDTHS THEN KEY_WIDTHS[key] ELSE "w-12"
     IN  /\ intensity' = i
         /\ cells' = Append(cells, [key |-> key, displayName |-> displayName,
                                    width |-> width, count |-> count,
                                    color |-> getHeatColor(i)])
  /\ scans' = scans + 1
  /\ IF col < Len(KEYBOARD_LAYOUT[row]) - 1
     THEN row' = row /\ col' = col + 1
     ELSE row' = row + 1 /\ col' = 1
  /\ UNCHANGED <<stats, appVars, heatVars, shareVars>>

(* the callback of row.map for the key at (row, col); its getIntensity call
   spreads Object.values(stats.key_frequency_map) into Math.max once *)
RenderKey ==
  /\ row <= Len(KEYBOARD_LAYOUT)
  /\ LET key == KEYBOARD_LAYOUT[row][col]
         i == getIntensity(stats, key)
         count == getKeyCount(stats, key)
         displayName == IF key \in DOMAIN KEY_DISPLAY_NAMES
                        THEN KEY_DISPLAY_NAMES[key] ELSE toUpperCase(key)
         width == IF key \in DOMAIN KEY_WIDTHS THEN KEY_WIDTHS[key] ELSE "w-12"
     IN  /\ intensity' = i
         /\ cells' = Append(cells, [key |-> key, displayName |-> displayName,
                                    width |-> width, count |-> count,
                                    color |-> getHeatColor(i)])
  /\ scans' = scans + 1
  /\ IF col < Len(KEYBOARD_LAYOUT[row])
     THEN row' = row /\ col' = col + 1
     ELSE row' = row + 1 /\ col' = 1
  /\ UNCHANGED <<stats, appVars, heatVars, shareVars>>

(* React calls the component again with the same props *)
Rerender ==
  /\ row > Len(KEYBOARD_LAYOUT)
  /\ row' = 1
  /\ col' = 1
  /\ cells' = <<>>
  /\ intensity' = <<>>
  /\ scans' = 0
  /\ UNCHANGED <<stats, appVars, heatVars, shareVars>>

Next == RenderKey \/ Rerender

Spec == Init /\ [][Next]_vars

(* ---------------------------------------------------------------------- *)
(* getHeatColor alone, given the intensities n / HeatSteps one after the   *)
(* other: every hundredth (the thresholds are hundredths) and the midpoint *)
(* of every hundredth-wide cell of [0, 1]                                  *)
(* ---------------------------------------------------------------------- *)
HeatScale == 1

HeatSteps == 200 * HeatScale

(* KeyboardHeatmap is not being rendered *)
HeatmapIdle ==
  /\ stats = Null
  /\ row = Len(KEYBOARD_LAYOUT) + 1
  /\ col = 1
  /\ cells = <<>>
  /\ intensity = <<>>
  /\ scans = 0

HeatSpecInit == HeatmapIdle /\ AppInit /\ HeatInit /\ ShareInit

(* one call of getHeatColor; an odd numerator is the midpoint of a cell and
   is counted towards the width of the band it falls in *)
HeatProbe ==
  /\ probes <= HeatSteps
  /\ LET color == getHeatColor([num |-> probes, den |-> HeatSteps])
     IN  /\ heatColor' = color
         /\ tally' = [tally EXCEPT ![Bucket(color)] =
                        [all |-> @.all + 1, mid |-> @.mid + (probes % 2)]]
  /\ probes' = probes + 1
  /\ UNCHANGED <<heatmapVars, appVars, shareVars>>

HeatNext == HeatProbe

HeatSpec == HeatSpecInit /\ [][HeatNext]_vars

(* ---------------------------------------------------------------------- *)
(* App: fetchStats and the view it selects.  The callbacks of a heatmap    *)
(* render are interleaved with the handlers of App, which is more than a   *)
(* JavaScript run-to-completion render allows.                             *)
(* ---------------------------------------------------------------------- *)
(* what /api/stats can answer with *)
AppSnapshots ==
  { [key_frequency_map |-> (<<"a">> :> x) @@ (ShiftLeft :> y)] :
      x \in {1, 2}, y \in {1, 2} }

(* 'Failed to fetch stats' is thrown for a response that is not ok; the other
   is the message of the TypeError a failed fetch rejects with *)
ErrorMessages == {"Failed to fetch stats", "Failed to fetch"}

(* which of the four returns of App is displayed *)
View ==
  IF loading THEN "loading"
  ELSE IF error # Null THEN "error"
  ELSE IF appStats = Null THEN "nothing"
  ELSE "dashboard"

(* fetchStats up to its first await *)
fetchStats ==
  /\ loading' = TRUE
  /\ error' = Null
  /\ inflight' = inflight + 1
  /\ UNCHANGED appStats

(* useEffect(() => { fetchStats() }, []) *)
MountEffect ==
  /\ ~mounted
  /\ mounted' = TRUE
  /\ fetchStats
  /\ UNCHANGED <<heatmapVars, heatVars, shareVars>>

(* a Refresh button that stays on screen while the fetch is running *)
ClickRefresh_whileLoading ==
  /\ mounted
  /\ error = Null
  /\ appStats # Null
  /\ fetchStats
  /\ UNCHANGED <<mounted, heatmapVars, heatVars, shareVars>>

(* the Refresh button of the dashboard *)
ClickRefresh ==
  /\ mounted
  /\ View = "dashboard"
  /\ fetchStats
  /\ UNCHANGED <<mounted, heatmapVars, heatVars, shareVars>>

(* the Retry button of the error view *)
ClickRetry ==
  /\ mounted
  /\ View = "error"
  /\ fetchStats
  /\ UNCHANGED <<mounted, heatmapVars, heatVars, shareVars>>

(* the response is ok and its JSON parses: setStats(data), then finally *)
FetchSucceeds ==
  /\ inflight > 0
  /\ \E data \in AppSnapshots : appStats' = data
  /\ loading' = FALSE
  /\ inflight' = inflight - 1
  /\ UNCHANGED <<error, mounted, heatmapVars, heatVars, shareVars>>

(* a failure that also calls setStats(null) *)
FetchFails_dropsStats ==
  /\ inflight > 0
  /\ \E m \in ErrorMessages : error' = [message |-> m]
  /\ appStats' = Null
  /\ loading' = FALSE
  /\ inflight' = inflight - 1
  /\ UNCHANGED <<mounted, heatmapVars, heatVars, shareVars>>

(* fetch rejects, the response is not ok or its JSON does not parse:
   setError(message), then finally *)
FetchFails ==
  /\ inflight > 0
  /\ \E m \in ErrorMessages : error' = [message |-> m]
  /\ loading' = FALSE
  /\ inflight' = inflight - 1
  /\ UNCHANGED <<appStats, mounted, heatmapVars, heatVars, shareVars>>

(* App renders the dashboard: KeyboardHeatmap is called with stats={stats} *)
RenderDashboard ==
  /\ View = "dashboard"
  /\ stats' = appStats
  /\ row' = 1
  /\ col' = 1
  /\ cells' = <<>>
  /\ intensity' = <<>>
  /\ scans' = 0
  /\ UNCHANGED <<appVars, heatVars, shareVars>>

AppSpecInit == HeatmapIdle /\ AppInit /\ HeatInit /\ ShareInit

AppNext ==
  \/ MountEffect
  \/ ClickRefresh
  \/ ClickRetry
  \/ FetchSucceeds
  \/ FetchFails
  \/ RenderDashboard
  \/ RenderKey

AppSpec == AppSpecInit /\ [][AppNext]_vars

(* ---------------------------------------------------------------------- *)
(* ShareableImage: the two handlers and the status message.  The buttons   *)
(* exist only while the card is mounted, so cardRef.current is never null  *)
(* when a handler is called.                                               *)
(* ---------------------------------------------------------------------- *)
(* handler calls and timeouts that may be pending together *)
MaxPending == 4

Pending == running.download + running.copy + timers

(* showStatus that starts no timeout *)
showStatus_noTimer(type, message) ==
  /\ status' = [type |-> type, message |-> message]
  /\ timers' = timers

(* setStatus({ type, message }); setTimeout(..., 3000) *)
showStatus(type, message) ==
  /\ status' = [type |-> type, message |-> message]
  /\ timers' = timers + 1

(* the Download button: handleDownload up to its await *)
ClickDownload ==
  /\ Pending < MaxPending
  /\ running' = [running EXCEPT !.download = @ + 1]
  /\ UNCHANGED <<status, timers, heatmapVars, appVars, heatVars>>

(* the Copy Image button: handleCopyToClipboard up to its first await *)
ClickCopy ==
  /\ Pending < MaxPending
  /\ running' = [running EXCEPT !.copy = @ + 1]
  /\ UNCHANGED <<status, timers, heatmapVars, appVars, heatVars>>

(* toPng resolves and the link is clicked, or something throws *)
DownloadSettles ==
  /\ running.download > 0
  /\ running' = [running EXCEPT !.download = @ - 1]
  /\ \/ showStatus("success", "Image downloaded!")
     \/ showStatus("error", "Failed to download image")
  /\ UNCHANGED <<heatmapVars, appVars, heatVars>>

(* toPng, fetch, blob and clipboard.write all resolve, or one of them throws *)
CopySettles ==
  /\ running.copy > 0
  /\ running' = [running EXCEPT !.copy = @ - 1]
  /\ \/ showStatus("success", "Image copied to clipboard!")
     \/ showStatus("error", "Failed to copy. Try downloading instead.")
  /\ UNCHANGED <<heatmapVars, appVars, heatVars>>

(* the callback of a timeout; equal delays fire in the order they were set,
   so the number of timeouts outstanding is all that matters *)
TimerFires ==
  /\ timers > 0
  /\ timers' = timers - 1
  /\ status' = NoStatus
  /\ UNCHANGED <<running, heatmapVars, appVars, heatVars>>

ShareSpecInit == HeatmapIdle /\ AppInit /\ HeatInit /\ ShareInit

ShareNext ==
  \/ ClickDownload
  \/ ClickCopy
  \/ DownloadSettles
  \/ CopySettles
  \/ TimerFires

(* a timeout that was set fires; nothing makes a handler settle *)
ShareSpec == ShareSpecInit /\ [][ShareNext]_vars /\ WF_vars(TimerFires)

(* ---------------------------------------------------------------------- *)
(* Vocabulary of the properties                                            *)
(* ---------------------------------------------------------------------- *)
freqOf == stats.key_frequency_map

(* the candidate keys of a label, in the order they are to be tried *)
Candidates(label) ==
  << label,
     toUpperCase(label),
     toLowerCase(label),
     <<toUpperCaseChar(label[1])>> \o toLowerCase(Tail(label)) >>
  \o (IF Len(label) = 1 THEN << <<"K","e","y">> \o toUpperCase(label) >> ELSE <<>>)

(* the positions of the candidates of a label that the mapping holds *)
Present(label) ==
  LET cand == Candidates(label)
  IN  {j \in DOMAIN cand : cand[j] \in DOMAIN freqOf}

FirstPresent(label) ==
  LET present == Present(label)
  IN  CHOOSE j \in present : \A k \in present : j <= k

(* The cell of the last callback, with the intensity the callback computed.
   Every cell is the last one in the state its RenderKey step leaves, so a
   property of the last cell in every reachable state is a property of every
   cell. *)
Cells ==
  IF cells = <<>> THEN {}
  ELSE LET last == cells[Len(cells)]
       IN  {[key |-> last.key, count |-> last.count, color |-> last.color,
             intensity |-> intensity]}

RenderComplete == row > Len(KEYBOARD_LAYOUT)

(* C1: the count shown for a key is the value of the first candidate the
   mapping holds, the candidates being tried in the order label, upper-cased,
   lower-cased, title-cased and, for a one-character label only,
   "Key" + upper-cased character. *)
C1_FirstCandidateWins ==
  \A c \in Cells :
    Present(c.key) # {} =>
      c.count = freqOf[Candidates(c.key)[FirstPresent(c.key)]]

(* a key resolved through a later candidate while a still later one is held *)
C1_Witness ==
  \E c \in Cells :
    /\ Cardinality(Present(c.key)) >= 2
    /\ FirstPresent(c.key) >= 2
    /\ \E j \in Present(c.key) :
         freqOf[Candidates(c.key)[j]] # freqOf[Candidates(c.key)[FirstPresent(c.key)]]

(* C2: when the mapping holds the label itself, that entry's value is the
   count, whatever other case variants the mapping holds. *)
C2_ExactMatchWins ==
  \A c \in Cells : c.key \in DOMAIN freqOf => c.count = freqOf[c.key]

(* ShiftLeft held exactly and lower-cased, with different values *)
C2_Witness ==
  \E c \in Cells :
    /\ c.key = ShiftLeft
    /\ DOMAIN freqOf = {ShiftLeft, toLowerCase(ShiftLeft)}
    /\ freqOf[ShiftLeft] # freqOf[toLowerCase(ShiftLeft)]
    /\ c.count = freqOf[ShiftLeft]

(* C3: when the mapping holds none of the candidates of a label, the count is
   0, the intensity is 0 and the bucket is 0. *)
C3_AbsentGivesZero ==
  \A c \in Cells :
    Present(c.key) = {} =>
      /\ c.count = 0
      /\ c.intensity.num = 0 /\ c.intensity.den > 0
      /\ Bucket(c.color) = 0

(* a key with no candidate in a mapping that is not empty *)
C3_Witness ==
  \E c \in Cells :
    /\ Present(c.key) = {}
    /\ c.key = ShiftLeft
    /\ \E k \in DOMAIN freqOf : freqOf[k] > 0
    /\ c.count = 0

(* C4: for a one-character label with no case variant in the mapping, the
   count is the value held under "Key" + upper-cased character; for a longer
   label with no case variant in the mapping the count is 0, also when the
   mapping holds "Key" + upper-cased label. *)
C4_KeyPrefixOnlyForOneCharacter ==
  \A c \in Cells :
    LET keyVariant == <<"K","e","y">> \o toUpperCase(c.key)
        caseVariants == {c.key, toUpperCase(c.key), toLowerCase(c.key),
                         <<toUpperCaseChar(c.key[1])>> \o toLowerCase(Tail(c.key))}
    IN  caseVariants \cap DOMAIN freqOf = {} =>
          /\ Len(c.key) = 1 /\ keyVariant \in DOMAIN freqOf
               => c.count = freqOf[keyVariant]
          /\ Len(c.key) >= 2 => c.count = 0

(* "a" resolved through "KeyA", and ShiftLeft not through "KeySHIFTLEFT" *)
C4_Witness ==
  /\ \E n \in DOMAIN cells : LET c == cells[n] IN
       /\ c.key = <<"a">>
       /\ DOMAIN freqOf \cap {<<"a">>, <<"A">>} = {}
       /\ <<"K","e","y","A">> \in DOMAIN freqOf
       /\ c.count = freqOf[<<"K","e","y","A">>]
       /\ c.count > 0
  /\ \E c \in Cells :
       /\ c.key = ShiftLeft
       /\ (<<"K","e","y">> \o toUpperCase(ShiftLeft)) \in DOMAIN freqOf
       /\ freqOf[<<"K","e","y">> \o toUpperCase(ShiftLeft)] > 0
       /\ c.count = 0

(* C6: the count and the intensity of every key are >= 0, also under a
   mapping that holds a negative value. *)
C6_NeverNegative ==
  \A c \in Cells : c.count >= 0 /\ c.intensity.num >= 0

(* C7: a step of the render leaves the snapshot's key_frequency_map as it
   was. *)
C7_RenderLeavesSnapshot ==
  [][RenderKey => stats' = stats]_vars

(* a complete render of a mapping that holds a count *)
C7_Witness ==
  /\ RenderComplete
  /\ cells # <<>>
  /\ \E k \in DOMAIN freqOf : freqOf[k] # 0

(* C8: the divisor of every intensity is the largest value of the mapping
   floored at 1, hence at least 1; under an empty or all-zero mapping every
   key has intensity 0 and bucket 0. *)
C8_MaxFlooredAtOne ==
  \A c \in Cells :
    /\ c.intensity.den >= 1
    /\ \A k \in DOMAIN freqOf : freqOf[k] <= c.intensity.den
    /\ c.intensity.den = 1 \/ \E k \in DOMAIN freqOf : freqOf[k] = c.intensity.den
    /\ (\A k \in DOMAIN freqOf : freqOf[k] = 0) =>
         c.intensity.num = 0 /\ Bucket(c.color) = 0

(* a complete render of an all-zero mapping that is not empty *)
C8_Witness ==
  /\ RenderComplete
  /\ DOMAIN freqOf # {}
  /\ \A k \in DOMAIN freqOf : freqOf[k] = 0
  /\ \A n \in DOMAIN cells : cells[n].color = "bg-secondary/50"
  /\ \A c \in Cells : c.intensity = [num |-> 0, den |-> 1]

(* C9: under a mapping without negative values every intensity lies in
   [0, 1], and it is 0 when the count is 0. *)
C9_IntensityInUnitInterval ==
  \A c \in Cells :
    (\A k \in DOMAIN freqOf : freqOf[k] >= 0) =>
      /\ c.intensity.den > 0
      /\ 0 <= c.intensity.num /\ c.intensity.num <= c.intensity.den
      /\ c.count <= c.intensity.den
      /\ c.count = 0 => c.intensity.num = 0

(* a key with an intensity strictly between 0 and 1 *)
C9_Witness ==
  \E c \in Cells :
    /\ \A k \in DOMAIN freqOf : freqOf[k] >= 0
    /\ 0 < c.intensity.num /\ c.intensity.num < c.intensity.den

(* C10: a key whose count is the largest value of the mapping and is > 0 has
   intensity 1 and the top bucket, 15, with colour bg-red-700/95. *)
C10_MaximumGetsTopBucket ==
  \A c \in Cells :
    (c.count > 0 /\ \A k \in DOMAIN freqOf : freqOf[k] <= c.count) =>
      /\ c.intensity.num = c.intensity.den
      /\ Bucket(c.color) = 15
      /\ c.color = "bg-red-700/95"

(* Space resolved through "SPACE", the only entry *)
C10_Witness ==
  \E c \in Cells :
    /\ c.key = Space
    /\ DOMAIN freqOf = {toUpperCase(Space)}
    /\ c.count = freqOf[toUpperCase(Space)]
    /\ c.count > 0
    /\ Bucket(c.color) = 15

(* ---------------------------------------------------------------------- *)
(* The render as a whole                                                   *)
(* ---------------------------------------------------------------------- *)
(* the labels of the layout, row after row *)
LayoutLabels ==
  KEYBOARD_LAYOUT[1] \o KEYBOARD_LAYOUT[2] \o KEYBOARD_LAYOUT[3]
    \o KEYBOARD_LAYOUT[4] \o KEYBOARD_LAYOUT[5]

(* C14: the text of a key is its KEY_DISPLAY_NAMES entry when it has one and
   its upper-cased label otherwise, and it is never empty. *)
C14_DisplayText ==
  \A n \in DOMAIN cells :
    /\ cells[n].key \in DOMAIN KEY_DISPLAY_NAMES
         => cells[n].displayName = KEY_DISPLAY_NAMES[cells[n].key]
    /\ cells[n].key \notin DOMAIN KEY_DISPLAY_NAMES
         => cells[n].displayName = toUpperCase(cells[n].key)
    /\ cells[n].displayName # <<>>

(* Backspace shown by its glyph and q shown as Q *)
C14_Witness ==
  /\ \E n \in DOMAIN cells :
       cells[n].key = Backspace /\ cells[n].displayName = <<"U+232B">>
  /\ \E n \in DOMAIN cells :
       cells[n].key = <<"q">> /\ cells[n].displayName = <<"Q">>

(* C15: one render scans key_frequency_map for its maximum exactly once. *)
C15_OneScanPerRender ==
  /\ scans <= 1
  /\ RenderComplete => scans = 1

(* C16, for keys: within one snapshot a key with a larger count never has a
   colder bucket than a key with a smaller count. *)
C16_LargerCountNeverColder ==
  \A m, n \in DOMAIN cells :
    cells[m].count <= cells[n].count
      => Bucket(cells[m].color) <= Bucket(cells[n].color)

(* C17: the cells of a render are those of the layout's labels, row after row
   and left to right, one per label; each carries a display text, the
   resolved count and the colour of that count's intensity. *)
C17_EveryLabelOnceInOrder ==
  /\ Len(cells) <= Len(LayoutLabels)
  /\ \A n \in DOMAIN cells : cells[n].key = LayoutLabels[n]
  /\ RenderComplete <=> Len(cells) = Len(LayoutLabels)
  /\ \A c \in Cells :
       /\ c.count = c.intensity.num
       /\ c.color = getHeatColor([num |-> c.count, den |-> c.intensity.den])
  /\ cells # <<>> => cells[Len(cells)].displayName # <<>>

(* a complete render, of sixty distinct labels *)
C17_Witness ==
  /\ RenderComplete
  /\ Len(cells) = 60
  /\ Cardinality({cells[n].key : n \in DOMAIN cells}) = 60
  /\ \E n \in DOMAIN cells : cells[n].count > 0

(* C18: a one-character digit or punctuation label held neither as it is nor
   with the "Key" prefix has count 0, intensity 0 and bucket 0, whatever
   other names the mapping holds. *)
C18_DigitFallsThrough ==
  \A c \in Cells :
    ( /\ Len(c.key) = 1
      /\ toUpperCase(c.key) = c.key /\ toLowerCase(c.key) = c.key
      /\ c.key \notin DOMAIN freqOf
      /\ (<<"K","e","y">> \o c.key) \notin DOMAIN freqOf )
    => c.count = 0 /\ c.intensity.num = 0 /\ Bucket(c.color) = 0

(* "1" shown cold while its presses are held under "Num1" *)
C18_Witness ==
  \E n \in DOMAIN cells :
    /\ cells[n].key = <<"1">>
    /\ <<"N","u","m","1">> \in DOMAIN freqOf
    /\ freqOf[<<"N","u","m","1">>] > 0
    /\ cells[n].count = 0
    /\ cells[n].color = "bg-secondary/50"

(* C20: when the first candidate the mapping holds has value 0, the count is
   0, also when a later candidate is held with a positive value. *)
C20_PresenceNotValue ==
  \A c \in Cells :
    (Present(c.key) # {} /\ freqOf[Candidates(c.key)[FirstPresent(c.key)]] = 0)
      => c.count = 0

(* an earlier candidate with 0 hides a later one with a positive value *)
C20_Witness ==
  \E c \in Cells :
    /\ Present(c.key) # {}
    /\ freqOf[Candidates(c.key)[FirstPresent(c.key)]] = 0
    /\ \E j \in Present(c.key) : freqOf[Candidates(c.key)[j]] > 0
    /\ c.count = 0

(* ---------------------------------------------------------------------- *)
(* The buckets of getHeatColor                                             *)
(* ---------------------------------------------------------------------- *)
(* the intensity given to getHeatColor last *)
LastProbe == [num |-> probes - 1, den |-> HeatSteps]

SweepComplete == probes = HeatSteps + 1

(* the threshold ladder, in hundredths *)
THRESHOLDS == <<0, 4, 8, 13, 19, 26, 34, 42, 52, 62, 70, 77, 84, 90, 96>>

(* the band of bucket b holds x: 0 alone for bucket 0, from the b-th
   threshold up to the next for buckets 1 to 14, from 0.96 to 1 for bucket 15 *)
InBand(b, x) ==
  IF b = 0 THEN x.num = 0
  ELSE IF b = 15 THEN THRESHOLDS[15] * x.den <= 100 * x.num /\ x.num <= x.den
  ELSE /\ x.num > 0
       /\ THRESHOLDS[b] * x.den <= 100 * x.num
       /\ 100 * x.num < THRESHOLDS[b + 1] * x.den

(* C11: getHeatColor returns bucket 0 for the intensity 0 and for no other
   intensity; a positive intensity gets a bucket of 1..15. *)
C11_BucketZeroIffZero ==
  /\ probes > 0 =>
       /\ Bucket(heatColor) = 0 <=> LastProbe.num = 0
       /\ LastProbe.num > 0 => Bucket(heatColor) \in 1..15
  /\ tally[0].all <= 1

(* the smallest positive intensity tried is in bucket 1, 0 alone in bucket 0 *)
C11_Witness ==
  /\ probes = 2
  /\ heatColor = "bg-blue-950/80"
  /\ tally[0].all = 1
  /\ tally[1].all = 1

(* C11, for the keys of a render: a key whose count is positive gets a bucket
   of 1..15 and a key whose count is 0 gets bucket 0. *)
C11_RenderedKeys ==
  \A c \in Cells :
    /\ c.count > 0 => Bucket(c.color) \in 1..15
    /\ c.count = 0 => Bucket(c.color) = 0

(* C12: the thresholds ascend, every intensity of [0, 1] is in the band of
   exactly one bucket, which is the one getHeatColor returns, and every one
   of the sixteen buckets is returned for some intensity. *)
C12_BucketsPartition ==
  /\ \A i \in 1..14 : THRESHOLDS[i] < THRESHOLDS[i + 1]
  /\ probes > 0 => {b \in 0..15 : InBand(b, LastProbe)} = {Bucket(heatColor)}
  /\ SweepComplete => \A b \in 0..15 : tally[b].all >= 1

(* every intensity tried, every bucket returned *)
C12_Witness ==
  /\ SweepComplete
  /\ LastProbe.num = LastProbe.den
  /\ \A b \in 0..15 : tally[b].all >= 1

(* C16, for intensities: no intensity of [0, 1] above the one tried last gets
   a lower bucket. *)
C16_MonotoneOnUnitInterval ==
  probes > 0 =>
    \A n \in 0..HeatSteps :
      n >= LastProbe.num =>
        Bucket(getHeatColor([num |-> n, den |-> HeatSteps])) >= Bucket(heatColor)

(* C19 as stated: of two buckets of 1..15, the higher never has the wider
   band. *)
C19_BandsNarrowTowardTop ==
  SweepComplete =>
    \A b, c \in 1..15 : b < c => tally[c].mid <= tally[b].mid

(* C19 as amended: from bucket 8 upwards the higher of two buckets never has
   the wider band, and up to bucket 8 never the narrower one. *)
C19_BandsWidestInTheMiddle ==
  SweepComplete =>
    /\ \A b, c \in 8..15 : b < c => tally[c].mid <= tally[b].mid
    /\ \A b, c \in 1..8 : b < c => tally[b].mid <= tally[c].mid

(* the widths 0.04 at both ends and 0.10 in the middle *)
C19_Witness ==
  /\ SweepComplete
  /\ tally[1].mid = 4 * HeatScale
  /\ tally[2].mid = 4 * HeatScale
  /\ tally[3].mid = 5 * HeatScale
  /\ tally[8].mid = 10 * HeatScale
  /\ tally[9].mid = 10 * HeatScale
  /\ tally[15].mid = 4 * HeatScale

(* ---------------------------------------------------------------------- *)
(* A render and the snapshot App holds                                     *)
(* ---------------------------------------------------------------------- *)
(* every cell so far, and the last intensity, as computed from snapshot s *)
RenderedFrom(s) ==
  /\ \A n \in DOMAIN cells :
       /\ cells[n].count = getKeyCount(s, cells[n].key)
       /\ cells[n].color = getHeatColor(getIntensity(s, cells[n].key))
  /\ cells # <<>> => intensity = getIntensity(s, cells[Len(cells)].key)

(* C13: all the cells of a render are computed from one and the same
   snapshot, the one the render was handed, also when setStats has replaced
   the snapshot of App since the render began. *)
C13_OneSnapshotPerRender ==
  cells # <<>> =>
    /\ \E s \in AppSnapshots : RenderedFrom(s)
    /\ RenderedFrom(stats)

(* a refresh has replaced the snapshot in the middle of a render *)
C13_Witness ==
  /\ ~RenderComplete
  /\ \E n \in DOMAIN cells : cells[n].key = <<"a">>
  /\ appStats # Null
  /\ appStats # stats
  /\ getKeyCount(appStats, <<"a">>) # getKeyCount(stats, <<"a">>)
  /\ RenderedFrom(stats)

(* ---------------------------------------------------------------------- *)
(* The entries two keys can resolve to                                     *)
(* ---------------------------------------------------------------------- *)
(* the key names getKeyCount tries for the n-th label of the layout *)
LayoutCandidates ==
  [n \in DOMAIN LayoutLabels |->
     LET cand == Candidates(LayoutLabels[n])
     IN  {cand[j] : j \in DOMAIN cand}]

CandidatesDisjoint ==
  \A m, n \in DOMAIN LayoutLabels :
    m # n => LayoutCandidates[m] \cap LayoutCandidates[n] = {}

(* the labels of the layout that try the key name k *)
ClaimantsOf ==
  [k \in FreqNames |-> {n \in DOMAIN LayoutLabels : k \in LayoutCandidates[n]}]

(* C21: the candidate key names of two distinct labels of the layout are
   disjoint, and the entry of the mapping a key has resolved to is tried
   for no other label of the layout. *)
C21_NoSharedEntry ==
  /\ CandidatesDisjoint
  /\ \A c \in Cells :
       /\ LayoutLabels[Len(cells)] = c.key
       /\ Present(c.key) # {} =>
            LET entry == Candidates(c.key)[FirstPresent(c.key)]
            IN  /\ c.count = freqOf[entry]
                /\ ClaimantsOf[entry] = {Len(cells)}

(* ShiftLeft resolved through SHIFTLEFT while the mapping also holds KeyA,
   the entry of the key a, with another count *)
C21_Witness ==
  /\ cells # <<>>
  /\ cells[Len(cells)].key = ShiftLeft
  /\ DOMAIN freqOf = {toUpperCase(ShiftLeft), <<"K","e","y","A">>}
  /\ cells[Len(cells)].count = freqOf[toUpperCase(ShiftLeft)]
  /\ freqOf[toUpperCase(ShiftLeft)] # freqOf[<<"K","e","y","A">>]
  /\ ClaimantsOf[<<"K","e","y","A">>] # ClaimantsOf[toUpperCase(ShiftLeft)]

(* ---------------------------------------------------------------------- *)
(* App: the fetch in flight and the view                                   *)
(* ---------------------------------------------------------------------- *)
(* C22: while a fetch has not settled, loading is true and the loading view
   is displayed, in which neither button can be clicked; at most one fetch
   is in flight; the dashboard is displayed only when loading is false,
   error is null and stats is not null. *)
C22_OneFetchBehindLoadingView ==
  /\ inflight \in {0, 1}
  /\ inflight > 0 => loading /\ View = "loading"
  /\ View = "loading" => ~ENABLED ClickRefresh /\ ~ENABLED ClickRetry
  /\ View = "dashboard" =>
       ~loading /\ error = Null /\ appStats # Null /\ inflight = 0

(* a fetch started from the dashboard: the loading view hides a snapshot *)
C22_Witness ==
  /\ inflight = 1
  /\ loading
  /\ View = "loading"
  /\ appStats \in AppSnapshots
  /\ error = Null
  /\ mounted

(* C23: a fetchStats call that settles leaves loading false; on success
   stats is the fetched snapshot and error is null; on failure error is a
   message, stats is what it was and the error view is displayed; starting
   a fetch clears the error. *)
C23_SettledFetch ==
  [][ /\ FetchSucceeds =>
           ~loading' /\ appStats' \in AppSnapshots /\ error' = Null
      /\ FetchFails =>
           /\ ~loading'
           /\ error' # Null /\ error'.message \in ErrorMessages
           /\ appStats' = appStats
           /\ View' = "error"
      /\ (MountEffect \/ ClickRefresh \/ ClickRetry) =>
           error' = Null /\ loading' /\ appStats' = appStats
    ]_vars

(* a failed refresh: the error view although an earlier snapshot is held *)
C23_Witness ==
  /\ View = "error"
  /\ ~loading
  /\ error # Null
  /\ appStats \in AppSnapshots
  /\ inflight = 0
  /\ ENABLED ClickRetry

(* ---------------------------------------------------------------------- *)
(* ShareableImage: the status message                                      *)
(* ---------------------------------------------------------------------- *)
(* C24: a handler that settles shows exactly one message and sets exactly
   one timeout; with no timeout outstanding the status is none; a message
   that is shown is cleared at some time. *)
C24_StatusClears ==
  /\ [](timers = 0 => status = NoStatus)
  /\ [][(DownloadSettles \/ CopySettles) =>
          /\ status'.type \in {"success", "error"}
          /\ status'.message # ""
          /\ timers' = timers + 1]_vars
  /\ (status # NoStatus) ~> (status = NoStatus)

(* a second message shown while the timeout of an earlier one is pending *)
C24_Witness ==
  /\ timers = 2
  /\ status.type = "error"
  /\ status.message = "Failed to copy. Try downloading instead."

====
